---- MODULE Spec2Model ----
(***************************************************************************)
(* LRU page-frame simulation of src/main_logic.cpp.                        *)
(*                                                                         *)
(* take_input reads a count n and n identifiers into the vector inputs;    *)
(* main then walks inputs once.  Every iteration looks the identifier up   *)
(* in the unordered_map (HIT: splice its list node to the front; MISS:     *)
(* evict the back of the list when it holds 3, push the identifier to the  *)
(* front, scan ram left to right for the first empty or victim slot) and   *)
(* prints one line.                                                        *)
(*                                                                         *)
(* std::list is modelled as an arena of nodes: check_usage is the sequence *)
(* of node handles from front to back, node maps a live handle to the      *)
(* identifier it stores, and a list<int>::iterator is a node handle.       *)
(***************************************************************************)
EXTENDS Integers, Sequences, FiniteSets, TLC

\* Longest input vector explored (the n read by take_input).
MaxLen == 5

\* Identifiers explored are -1 and 1..MaxId.
MaxId == 4

\* The literal 3 of main: ram(3,-1), check_usage.size()==3, j<3.
Capacity == 3

\* The empty-slot value of ram: vector<int> ram(3,-1).
Empty == -1

\* Longest input vector and largest identifier of the deeper, narrower
\* exploration SpecDeep.
DeepLen == 7

DeepMaxId == 3

DeepIds == {Empty} \cup (1 .. DeepMaxId)

\* The values cin>>val may deliver: any int, the value -1 that ram uses for
\* an empty slot among them.
Ids == {Empty} \cup (1 .. MaxId)

VARIABLES
    pc,           \* "read_n", "read_vals", "loop", "done": position in main
    capacity,     \* the frame count every literal 3 of main stands for
    n,            \* take_input: int n
    inputs,       \* vector<int> inputs
    i,            \* loop index of main: accesses processed so far
    ram,          \* vector<int> ram
    check_usage,  \* list<int> check_usage, as node handles front to back
    node,         \* live list node handle -> identifier stored in it
    map,          \* unordered_map<int, list<int>::iterator>
    ram_size,     \* int ram_size=0 (never written again)
    victim,       \* int victim of the last iteration (-1 when none was chosen)
    evicted,      \* the last iteration ran the body of if(check_usage.size()==3)
    placed,       \* the last iteration's scan reached a break (// placed=true)
    slot,         \* index j (1-based) the scan wrote, 0 when it wrote none
    out           \* the lines printed so far

vars == <<pc, capacity, n, inputs, i, ram, check_usage, node, map, ram_size,
          victim, evicted, placed, slot, out>>

----------------------------------------------------------------------------
(* Containers *)

\* The identifiers of check_usage, front to back.
ListVals(l, nd) == [k \in 1 .. Len(l) |-> nd[l[k]]]

\* The set of elements of a sequence.
Range(s) == {s[k] : k \in 1 .. Len(s)}

\* The node a push_front allocates: the least handle not in use.
FreshNode(nd) ==
    CHOOSE h \in 1 .. (Cardinality(DOMAIN nd) + 1) :
        /\ h \notin DOMAIN nd
        /\ \A g \in 1 .. (h - 1) : g \in DOMAIN nd

\* map.find(k) != map.end()
MapFind(m, k) == k \in DOMAIN m

\* map.erase(k) left out: the key stays behind.
MapEraseForgotten(m, k) == m

\* map.erase(k)
MapErase(m, k) == [x \in DOMAIN m \ {k} |-> m[x]]

\* map[k] = it
MapPut(m, k, it) == [x \in DOMAIN m \cup {k} |-> IF x = k THEN it ELSE m[x]]

\* The HIT branch without its promotion: the list is left as it is.
SpliceNowhere(l, it) == l

\* The promotion done by exchanging the node it with the first node.
SpliceSwapsWithFront(l, it) ==
    [k \in 1 .. Len(l) |-> IF k = 1 THEN it ELSE IF l[k] = it THEN l[1] ELSE l[k]]

\* check_usage.splice(check_usage.begin(), check_usage, it): the node it is
\* relinked before the first node; no node is created or destroyed.
SpliceFront(l, it) == <<it>> \o SelectSeq(l, LAMBDA h : h # it)

\* check_usage.front() taken for the victim instead of back().
BackIsFront(l) == l[1]

\* check_usage.back(): the handle of the last node.
Back(l) == l[Len(l)]

\* check_usage.pop_back()
PopBack(l) == SubSeq(l, 1, Len(l) - 1)

\* check_usage.size()==3 written one too large.
AtCapacityOffByOne(l, c) == Len(l) = c + 1

\* check_usage.size()==3 kept as a literal when the frame count is not 3.
AtCapacityLiteral(l, c) == Len(l) = 3

\* check_usage.size()==3
AtCapacity(l, c) == Len(l) = c

\* vector<int> ram(3): the slots value-initialised to 0.
InitRamZero(c) == [j \in 1 .. c |-> 0]

\* vector<int> ram(3,-1)
InitRam(c) == [j \in 1 .. c |-> Empty]

\* i<inputs.size()-1: the loop stops one access early.
LoopGuardSkipsLast(idx, sz) == idx < sz - 1

\* i<inputs.size()
LoopGuard(idx, sz) == idx < sz

\* The scan without its second test, if(ram[j]==victim).
RECURSIVE PlaceEmptyOnly(_, _, _, _)
PlaceEmptyOnly(r, j, id, vic) ==
    IF j > Len(r) THEN [ram |-> r, placed |-> FALSE, slot |-> 0]
    ELSE IF r[j] = Empty THEN [ram |-> [r EXCEPT ![j] = id], placed |-> TRUE, slot |-> j]
    ELSE PlaceEmptyOnly(r, j + 1, id, vic)

\* The scan with its bound one too small, j<2.
RECURSIVE PlaceShortScan(_, _, _, _)
PlaceShortScan(r, j, id, vic) ==
    IF j > Len(r) - 1 THEN [ram |-> r, placed |-> FALSE, slot |-> 0]
    ELSE IF r[j] = Empty THEN [ram |-> [r EXCEPT ![j] = id], placed |-> TRUE, slot |-> j]
    ELSE IF r[j] = vic THEN [ram |-> [r EXCEPT ![j] = id], placed |-> TRUE, slot |-> j]
    ELSE PlaceShortScan(r, j + 1, id, vic)

\* The scan for(int j=0;j<3;j++): from slot j on, write id into the first
\* slot that is empty or holds vic and stop; slots are numbered from 1.
RECURSIVE Place(_, _, _, _)
Place(r, j, id, vic) ==
    IF j > Len(r) THEN [ram |-> r, placed |-> FALSE, slot |-> 0]
    ELSE IF r[j] = Empty THEN [ram |-> [r EXCEPT ![j] = id], placed |-> TRUE, slot |-> j]
    ELSE IF r[j] = vic THEN [ram |-> [r EXCEPT ![j] = id], placed |-> TRUE, slot |-> j]
    ELSE Place(r, j + 1, id, vic)

\* The line printed for one access: the identifier, HIT or MISS, and ram as
\* it is when the print loop runs.
Line(id, cls, r) == [id |-> id, cls |-> cls, frames |-> r]

----------------------------------------------------------------------------
(* The program *)

InitWith(c) ==
    /\ pc = "read_n"
    /\ capacity = c
    /\ n = 0
    /\ inputs = <<>>
    /\ i = 0
    /\ ram = InitRam(c)
    /\ check_usage = <<>>
    /\ node = <<>>
    /\ map = <<>>
    /\ ram_size = 0
    /\ victim = Empty
    /\ evicted = FALSE
    /\ placed = FALSE
    /\ slot = 0
    /\ out = <<>>

Init == InitWith(Capacity)

\* take_input: cin>>n
ReadCountOf(L) ==
    /\ pc = "read_n"
    /\ \E k \in 0 .. L : n' = k
    /\ pc' = "read_vals"
    /\ UNCHANGED <<capacity, inputs, i, ram, check_usage, node, map, ram_size,
                   victim, evicted, placed, slot, out>>

\* take_input: one iteration of for(int i=0;i<n;i++){cin>>val; inputs.push_back(val);}
ReadValueOf(S) ==
    /\ pc = "read_vals"
    /\ Len(inputs) < n
    /\ \E val \in S : inputs' = Append(inputs, val)
    /\ UNCHANGED <<pc, capacity, n, i, ram, check_usage, node, map, ram_size,
                   victim, evicted, placed, slot, out>>

ReadValue == ReadValueOf(Ids)

ReadCount == ReadCountOf(MaxLen)

\* take_input returns once its loop has run n times.
ReadDone ==
    /\ pc = "read_vals"
    /\ Len(inputs) >= n
    /\ pc' = "loop"
    /\ UNCHANGED <<capacity, n, inputs, i, ram, check_usage, node, map, ram_size,
                   victim, evicted, placed, slot, out>>

\* The HIT branch splicing the node to check_usage.end() instead of begin().
HitMovesToBack(id) ==
    /\ MapFind(map, id)
    /\ check_usage' = SelectSeq(check_usage, LAMBDA h : h # map[id]) \o <<map[id]>>
    /\ out' = Append(out, Line(id, "HIT", ram))
    /\ victim' = Empty
    /\ evicted' = FALSE
    /\ placed' = FALSE
    /\ slot' = 0
    /\ UNCHANGED <<ram, node, map>>

\* The HIT branch of one iteration, the print loop included.
Hit(id) ==
    /\ MapFind(map, id)
    /\ check_usage' = SpliceFront(check_usage, map[id])
    /\ out' = Append(out, Line(id, "HIT", ram))
    /\ victim' = Empty
    /\ evicted' = FALSE
    /\ placed' = FALSE
    /\ slot' = 0
    /\ UNCHANGED <<ram, node, map>>

\* The MISS branch with the print loop run before the placement scan.
MissPrintsBeforeScan(id) ==
    /\ ~MapFind(map, id)
    /\ LET full == AtCapacity(check_usage, capacity)
           vic  == IF full THEN node[Back(check_usage)] ELSE Empty
           l1   == IF full THEN PopBack(check_usage) ELSE check_usage
           nd1  == IF full
                   THEN [h \in DOMAIN node \ {Back(check_usage)} |-> node[h]]
                   ELSE node
           m1   == IF full THEN MapErase(map, vic) ELSE map
           h    == FreshNode(nd1)
           res  == Place(ram, 1, id, vic)
       IN  /\ check_usage' = <<h>> \o l1
           /\ node' = [x \in DOMAIN nd1 \cup {h} |-> IF x = h THEN id ELSE nd1[x]]
           /\ map' = MapPut(m1, id, h)
           /\ ram' = res.ram
           /\ placed' = res.placed
           /\ slot' = res.slot
           /\ victim' = vic
           /\ evicted' = full
           /\ out' = Append(out, Line(id, "MISS", ram))

\* The MISS branch of one iteration, the print loop included.
Miss(id) ==
    /\ ~MapFind(map, id)
    /\ LET full == AtCapacity(check_usage, capacity)
           vic  == IF full THEN node[Back(check_usage)] ELSE Empty
           l1   == IF full THEN PopBack(check_usage) ELSE check_usage
           nd1  == IF full
                   THEN [h \in DOMAIN node \ {Back(check_usage)} |-> node[h]]
                   ELSE node
           m1   == IF full THEN MapErase(map, vic) ELSE map
           h    == FreshNode(nd1)
           res  == Place(ram, 1, id, vic)
       IN  /\ check_usage' = <<h>> \o l1
           /\ node' = [x \in DOMAIN nd1 \cup {h} |-> IF x = h THEN id ELSE nd1[x]]
           /\ map' = MapPut(m1, id, h)
           /\ ram' = res.ram
           /\ placed' = res.placed
           /\ slot' = res.slot
           /\ victim' = vic
           /\ evicted' = full
           /\ out' = Append(out, Line(id, "MISS", res.ram))

\* One iteration of the loop of main over inputs[i].
Access ==
    /\ pc = "loop"
    /\ LoopGuard(i, Len(inputs))
    /\ \/ Hit(inputs[i + 1])
       \/ Miss(inputs[i + 1])
    /\ i' = i + 1
    /\ UNCHANGED <<pc, capacity, n, inputs, ram_size>>

\* The loop of main ends and main returns.
Finish ==
    /\ pc = "loop"
    /\ ~LoopGuard(i, Len(inputs))
    /\ pc' = "done"
    /\ UNCHANGED <<capacity, n, inputs, i, ram, check_usage, node, map, ram_size,
                   victim, evicted, placed, slot, out>>

Next == ReadCount \/ ReadValue \/ ReadDone \/ Access \/ Finish

Spec == Init /\ [][Next]_vars

\* The run with fair scheduling: the single thread keeps executing.
FairSpec == Spec /\ WF_vars(Next)

\* The same program on inputs of up to DeepLen identifiers of DeepIds.
NextDeep ==
    ReadCountOf(DeepLen) \/ ReadValueOf(DeepIds) \/ ReadDone \/ Access \/ Finish

SpecDeep == Init /\ [][NextDeep]_vars

\* The same program with the frame count configured to 1.
InitCap1 == InitWith(1)

SpecCap1 == InitCap1 /\ [][Next]_vars

----------------------------------------------------------------------------
(* Derived views of the state *)

\* The resident identifiers, most recently used first.
Recency == ListVals(check_usage, node)

\* The number of slots of ram holding v.
CountOf(r, v) == Cardinality({j \in 1 .. Len(r) : r[j] = v})

\* The non-empty slots of ram.
Occupied(r) == {j \in 1 .. Len(r) : r[j] # Empty}

TypeOK ==
    /\ pc \in {"read_n", "read_vals", "loop", "done"}
    /\ i \in 0 .. MaxLen
    /\ Len(ram) = capacity

----------------------------------------------------------------------------
(* Properties *)

\* C1: after every access the recency list check_usage holds at most
\* Capacity (3) identifiers.
SizeWithinCapacity == Len(check_usage) <= Capacity

\* An access has evicted from a full list and the list is full again.
FullAfterEviction == evicted /\ Len(check_usage) = Capacity

\* C2: after every access every resident identifier is in exactly one slot
\* of ram, every non-empty slot holds a resident identifier, and the number
\* of non-empty slots is the length of check_usage.
FramesMirrorRecency ==
    /\ \A v \in Range(Recency) : CountOf(ram, v) = 1
    /\ \A j \in Occupied(ram) : ram[j] \in Range(Recency)
    /\ Cardinality(Occupied(ram)) = Len(check_usage)

\* No identifier read so far is the empty-slot value -1.
NoSentinelRead == \A k \in 1 .. Len(inputs) : inputs[k] # Empty

\* The frame/recency correspondence on inputs that never hold -1.
FramesMirrorRecencyNoSentinel == NoSentinelRead => FramesMirrorRecency

\* C3: after every access the keys of map are exactly the identifiers in
\* check_usage, and map sends each key to a live node of the list that
\* stores that key.
MapMatchesList ==
    /\ DOMAIN map = Range(Recency)
    /\ \A k \in DOMAIN map :
          /\ map[k] \in Range(check_usage)
          /\ node[map[k]] = k

\* A promotion, an insertion and an eviction have all happened.
PromotedInsertedEvicted ==
    /\ evicted
    /\ \E k \in 1 .. Len(out) : out[k].cls = "HIT"

\* A step of the loop of main: one access has been processed.
AccessStep == pc = "loop" /\ i' = i + 1

\* C4: on the input 1,2,3,1,4 the lines are 1 MISS [1,-1,-1]; 2 MISS
\* [1,2,-1]; 3 MISS [1,2,3]; 1 HIT [1,2,3]; 4 MISS [1,4,3], the last one
\* evicting the victim 2.
ExampleTrace ==
    inputs = <<1, 2, 3, 1, 4>> =>
        /\ i >= 1 => out[1] = [id |-> 1, cls |-> "MISS", frames |-> <<1, -1, -1>>]
        /\ i >= 2 => out[2] = [id |-> 2, cls |-> "MISS", frames |-> <<1, 2, -1>>]
        /\ i >= 3 => out[3] = [id |-> 3, cls |-> "MISS", frames |-> <<1, 2, 3>>]
        /\ i = 3 => ~evicted
        /\ i >= 4 => out[4] = [id |-> 1, cls |-> "HIT", frames |-> <<1, 2, 3>>]
        /\ i >= 5 => out[5] = [id |-> 4, cls |-> "MISS", frames |-> <<1, 4, 3>>]
        /\ i = 5 => (evicted /\ victim = 2 /\ ram = <<1, 4, 3>>)

\* The input 1,2,3,1,4 has been processed to its end.
ExampleTraceDone == inputs = <<1, 2, 3, 1, 4>> /\ pc = "done" /\ Len(out) = 5

\* C5: an access to the identifier of the access just before it is a HIT
\* and leaves ram and the recency order as they were.
RepeatIsHit ==
    [][(AccessStep /\ i >= 1 /\ inputs[i + 1] = inputs[i]) =>
          /\ out'[i'].cls = "HIT"
          /\ ram' = ram
          /\ Recency' = Recency]_vars

\* An identifier has just been accessed twice in a row while another
\* identifier was resident too.
RepeatedAccessDone ==
    /\ i >= 2
    /\ inputs[i] = inputs[i - 1]
    /\ Len(check_usage) >= 2
    /\ out[i].cls = "HIT"

\* C6: the scan of every MISS reaches a break before running past the last
\* slot, so the identifier of every MISS is written into ram.
MissAlwaysPlaced ==
    (i >= 1 /\ out[i].cls = "MISS") => (placed /\ ram[slot] = inputs[i])

\* The placement of every MISS on inputs that never hold -1.
NoConsistencyFaultNoSentinel ==
    [][(AccessStep /\ NoSentinelRead /\ out'[i'].cls = "MISS") =>
          /\ placed'
          /\ ~evicted' => ram[slot'] = Empty
          /\ evicted' => ram[slot'] = victim'
          /\ ram'[slot'] = inputs[i']]_vars

\* C7 as stated: the line printed for an access carries, besides the
\* identifier, the classification and the frames, the victim of that access.
LineCarriesVictim ==
    (i >= 1) =>
        /\ "victim" \in DOMAIN out[i]
        /\ out[i].victim = victim

\* C7: every access prints exactly one line, made of the requested
\* identifier, HIT when the identifier was a key of map before the access
\* and MISS otherwise, and ram as it is after the access; no victim is
\* printed.
LineReportsAccess ==
    [][AccessStep =>
          /\ Len(out') = i'
          /\ SubSeq(out', 1, i) = out
          /\ DOMAIN out'[i'] = {"id", "cls", "frames"}
          /\ out'[i'].id = inputs[i']
          /\ out'[i'].cls = (IF MapFind(map, inputs[i']) THEN "HIT" ELSE "MISS")
          /\ out'[i'].frames = ram']_vars

\* A line has been printed for a MISS that evicted a victim and changed ram.
EvictingMissPrinted ==
    /\ i >= 1
    /\ out[i].cls = "MISS"
    /\ evicted
    /\ victim # Empty
    /\ out[i].frames = ram
    /\ out[i - 1].frames # ram

InitialStateEmpty ==
    (i = 0) =>
        /\ check_usage = <<>>
        /\ DOMAIN map = {}
        /\ Len(ram) = Capacity
        /\ \A j \in 1 .. Len(ram) : ram[j] = Empty
        /\ out = <<>>

\* The run on the empty input has ended.
EmptyRunDone == pc = "done" /\ n = 0 /\ inputs = <<>> /\ i = 0

\* C10: every run ends, and at its end the loop has processed every element
\* of inputs once, in order, and printed one line for each.
Terminates ==
    <>(/\ pc = "done"
       /\ i = Len(inputs)
       /\ Len(out) = Len(inputs)
       /\ \A k \in 1 .. Len(inputs) : out[k].id = inputs[k])

\* A run on an input of at least three identifiers has ended.
LongRunDone == pc = "done" /\ Len(inputs) >= 3 /\ Len(out) = Len(inputs)

\* The identifiers of a sequence other than v, in their order.
Without(sq, v) == SelectSeq(sq, LAMBDA x : x # v)

\* C11: an access is a HIT exactly when its identifier is a key of map, and
\* so resident, before it; a HIT moves the identifier to the front of
\* check_usage, keeps the order of the others, keeps the resident set and
\* its size, and evicts nothing.
HitIffResident ==
    [][AccessStep =>
          /\ (out'[i'].cls = "HIT") <=> MapFind(map, inputs[i'])
          /\ (out'[i'].cls = "HIT") <=> (inputs[i'] \in Range(Recency))
          /\ (out'[i'].cls = "HIT") =>
                /\ Recency' = <<inputs[i']>> \o Without(Recency, inputs[i'])
                /\ Len(Recency') = Len(Recency)
                /\ Range(Recency') = Range(Recency)
                /\ DOMAIN map' = DOMAIN map
                /\ ~evicted'
                /\ victim' = Empty]_vars

\* A HIT has promoted an identifier other than the one accessed just
\* before it, with three identifiers resident.
HitPromoted ==
    /\ i >= 2
    /\ out[i].cls = "HIT"
    /\ inputs[i] # inputs[i - 1]
    /\ Len(check_usage) = Capacity
    /\ Recency[1] = inputs[i]

\* C12: a MISS evicts exactly when 3 identifiers are resident before it;
\* the victim is then the back of check_usage and leaves the list and map,
\* and the requested identifier goes to the front; with fewer than 3
\* resident nothing is evicted and the resident count grows by one.
MissEvictsBackWhenFull ==
    [][(AccessStep /\ out'[i'].cls = "MISS") =>
          /\ evicted' <=> (Len(check_usage) = Capacity)
          /\ evicted' =>
                /\ victim' = Recency[Len(Recency)]
                /\ victim' \notin Range(Recency')
                /\ ~MapFind(map', victim')
                /\ Recency' = <<inputs[i']>> \o SubSeq(Recency, 1, Len(Recency) - 1)
                /\ DOMAIN map' = (DOMAIN map \ {victim'}) \cup {inputs[i']}
          /\ ~evicted' =>
                /\ Len(check_usage) < Capacity
                /\ victim' = Empty
                /\ Recency' = <<inputs[i']>> \o Recency
                /\ Len(check_usage') = Len(check_usage) + 1
                /\ DOMAIN map' = DOMAIN map \cup {inputs[i']}]_vars

\* A MISS has evicted the back of a full list after a HIT had reordered it.
MissEvictedAfterHit ==
    /\ i >= 2
    /\ out[i].cls = "MISS"
    /\ evicted
    /\ out[i - 1].cls = "HIT"
    /\ ~MapFind(map, victim)

\* The slots of ram that an access has changed.
ChangedSlots(r, r2) == {j \in 1 .. Len(r) : r2[j] # r[j]}

\* C13: a MISS that evicts writes the requested identifier into the
\* lowest-index slot holding the victim, never into another slot.
VictimSlotReplaced ==
    [][(AccessStep /\ out'[i'].cls = "MISS" /\ evicted') =>
          /\ placed'
          /\ ram[slot'] = victim'
          /\ \A j \in 1 .. (slot' - 1) : ram[j] # victim'
          /\ ram'[slot'] = inputs[i']]_vars

\* The victim's slot is the one replaced on inputs that never hold -1.
VictimSlotReplacedNoSentinel ==
    [][(AccessStep /\ NoSentinelRead /\ out'[i'].cls = "MISS" /\ evicted') =>
          /\ placed'
          /\ ram[slot'] = victim'
          /\ \A j \in 1 .. (slot' - 1) : ram[j] # victim'
          /\ ram'[slot'] = inputs[i']]_vars

\* C14: a MISS that evicts nothing writes the requested identifier into the
\* lowest-index slot holding -1 and leaves every slot not holding -1 as it
\* was.
MissFillsFirstEmpty ==
    [][(AccessStep /\ out'[i'].cls = "MISS" /\ ~evicted') =>
          /\ placed'
          /\ ram[slot'] = Empty
          /\ \A j \in 1 .. (slot' - 1) : ram[j] # Empty
          /\ ram'[slot'] = inputs[i']
          /\ \A j \in Occupied(ram) : ram'[j] = ram[j]]_vars

\* A MISS that evicted nothing has filled the last slot after the first two.
ThirdSlotFilled ==
    /\ i >= 1
    /\ out[i].cls = "MISS"
    /\ ~evicted
    /\ slot = Capacity
    /\ ram[slot] = inputs[i]
    /\ Occupied(ram) = 1 .. Capacity

\* C15: a HIT leaves every slot of ram as it was; a MISS changes exactly one
\* slot, to the requested identifier, and leaves the others as they were.
OneSlotPerAccess ==
    [][AccessStep =>
          /\ (out'[i'].cls = "HIT") => ram' = ram
          /\ (out'[i'].cls = "MISS") =>
                /\ Cardinality(ChangedSlots(ram, ram')) = 1
                /\ \A j \in ChangedSlots(ram, ram') : ram'[j] = inputs[i']]_vars

\* One slot per MISS on inputs that never hold -1.
OneSlotPerAccessNoSentinel ==
    [][(AccessStep /\ NoSentinelRead) =>
          /\ (out'[i'].cls = "HIT") => ram' = ram
          /\ (out'[i'].cls = "MISS") =>
                /\ Cardinality(ChangedSlots(ram, ram')) = 1
                /\ \A j \in ChangedSlots(ram, ram') : ram'[j] = inputs[i']]_vars

\* Reference LRU: the distinct identifiers among the first k accesses of s,
\* the most recently accessed first.
RECURSIVE RecentDistinct(_, _)
RecentDistinct(s, k) ==
    IF k = 0 THEN <<>>
    ELSE <<s[k]>> \o Without(RecentDistinct(s, k - 1), s[k])

\* The first m elements of a sequence, all of them when it has fewer.
Take(sq, m) == SubSeq(sq, 1, IF Len(sq) < m THEN Len(sq) ELSE m)

\* Reference LRU: what is resident after the first k accesses of s.
ReferenceLRU(s, k) == Take(RecentDistinct(s, k), Capacity)

\* C16: after every access check_usage is the up to 3 most recently
\* accessed distinct identifiers, the latest access first, and every access
\* so far was a HIT exactly when its identifier was among the 3 most
\* recently accessed distinct identifiers of the accesses before it.
MatchesReferenceLRU ==
    /\ Recency = ReferenceLRU(inputs, i)
    /\ \A k \in 1 .. i :
          (out[k].cls = "HIT") <=> (inputs[k] \in Range(ReferenceLRU(inputs, k - 1)))

\* A HIT has happened after more than 3 distinct identifiers were accessed.
HitAfterOverflow ==
    /\ i >= 1
    /\ out[i].cls = "HIT"
    /\ inputs[i] # inputs[i - 1]
    /\ Len(RecentDistinct(inputs, i)) > Capacity

\* C17: right after an access its identifier is at the front of
\* check_usage and in a slot of ram, and the access before it is not the
\* victim it evicts.
AccessedIsFrontAndFramed ==
    [][AccessStep =>
          /\ Recency'[1] = inputs[i']
          /\ \E j \in 1 .. Len(ram') : ram'[j] = inputs[i']
          /\ (i >= 1 /\ evicted') => victim' # inputs[i]]_vars

\* The same on inputs that never hold -1.
AccessedIsFrontAndFramedNoSentinel ==
    [][(AccessStep /\ NoSentinelRead) =>
          /\ Recency'[1] = inputs[i']
          /\ \E j \in 1 .. Len(ram') : ram'[j] = inputs[i']
          /\ (i >= 1 /\ evicted') => victim' # inputs[i]]_vars

\* The part of C17 that ram plays no role in.
AccessedIsFrontNotNextVictim ==
    [][AccessStep =>
          /\ Recency'[1] = inputs[i']
          /\ (i >= 1 /\ evicted') => victim' # inputs[i]]_vars

\* C18: whatever int is read, -1 included, after every access the number
\* of slots not holding -1 is the number of resident identifiers and the
\* accessed identifier is in a slot that does not look empty.
SentinelSafe ==
    (i >= 1) =>
        /\ Cardinality(Occupied(ram)) = Len(check_usage)
        /\ \E j \in Occupied(ram) : ram[j] = inputs[i]

\* The same on inputs that never hold -1.
SentinelSafeNoSentinel == NoSentinelRead => SentinelSafe

\* C19: after every access the slots not holding -1 are the first ones of
\* ram, and a slot that does not hold -1 never holds -1 again.
FramesFillPrefix ==
    [][AccessStep =>
          /\ \E m \in 0 .. Len(ram') : Occupied(ram') = 1 .. m
          /\ Occupied(ram) \subseteq Occupied(ram')]_vars

\* The same on inputs that never hold -1.
FramesFillPrefixNoSentinel ==
    [][(AccessStep /\ NoSentinelRead) =>
          /\ \E m \in 0 .. Len(ram') : Occupied(ram') = 1 .. m
          /\ Occupied(ram) \subseteq Occupied(ram')]_vars

\* No identifier is in two nodes of check_usage.
NoDuplicateResident ==
    \A a, b \in 1 .. Len(check_usage) : Recency[a] = Recency[b] => a = b

\* No identifier is in two slots of ram.
NoDuplicateFrame ==
    \A a, b \in Occupied(ram) : ram[a] = ram[b] => a = b

\* C20: after every access no identifier is twice in check_usage and no
\* identifier is in two slots of ram.
NoDuplicates == NoDuplicateResident /\ NoDuplicateFrame

\* The same on inputs that never hold -1.
NoDuplicatesNoSentinel == NoSentinelRead => NoDuplicates

====
